---- MODULE Spec2Model ----
(***************************************************************************)
(* Recurring-schedule and conflict-resolution engine of the Deep Work      *)
(* scheduler: SessionScheduler.handleSubmit (the write gate), App's        *)
(* getTasksForDate (the occurrence expander) and App's lifecycle handlers. *)
(*                                                                         *)
(* Time.  A JavaScript Date is an instant.  Instants are counted in        *)
(* minutes.  A value called "local" is the reading of the local wall clock *)
(* (minutes since 2024-01-01T00:00 local time); a value called "ISO" is    *)
(* the reading of the UTC clock (what toISOString() stores and what        *)
(* new Date("YYYY-MM-DD") parses).  local = ISO + tzOffset.                *)
(* A calendar date is a day number, day 0 = Monday 2024-01-01.             *)
(***************************************************************************)
EXTENDS Integers, Sequences, FiniteSets, TLC

VARIABLES
    schedule,          \* App: useState<ScheduleItem[]>([])
    now,               \* the wall clock read by new Date(), local minutes
    tzOffset,          \* local clock minus UTC clock of the host, minutes
    settingsEnforced,  \* TRUE: the SessionScheduler revision that takes `settings`
    error,             \* SessionScheduler: useState<string | null>(null)
    suggestion,        \* the proposedStart quoted in the conflict message
    taskToPause,       \* App: useState<ScheduleItem | null>(null), << >> = null
    activeSession,     \* App: useState<ScheduleItem | null>(null), << >> = null
    sessionForFeedback,\* App: useState<{item, date} | null>(null), << >> = null
    ritual,            \* SessionScheduler: useState<string[] | null>(null), << >> = null
    aiCall             \* SessionScheduler: the Promise.all of fetchAIAssistance, with
                       \* isFetchingRitual and aiAssistanceFetched

vars == <<schedule, now, tzOffset, settingsEnforced, error, suggestion, taskToPause,
          activeSession, sessionForFeedback, ritual, aiCall>>

----------------------------------------------------------------------------
(* Bounds of the exploration *)

MaxItems == 3
MaxPauses == 1
\* pauses per item where the pause dialog is explored on its own
MaxPausesDeep == 2

\* what the user types into the scheduler form: every recurrence on two
\* Mondays a week apart, weekly sessions with an end date before, on and after
\* the start date, and one-time sessions that abut and overlap on day 0
RecurrenceForms ==
    [startDate : {0, 7}, startTime : {9 * 60}, duration : {30},
     endDate : {<< >>}, repeatFrequency : {"ONCE", "DAILY", "WEEKLY", "MONTHLY"},
     repeatOn : {<<1>>}]
EndDateForms ==
    [startDate : {0, 7}, startTime : {9 * 60}, duration : {30},
     endDate : {<<0>>, <<7>>}, repeatFrequency : {"WEEKLY"}, repeatOn : {<<1>>}]
Forms == RecurrenceForms \cup EndDateForms

\* one-time sessions of day 0 that abut, overlap and chain
SlotForms ==
    [startDate : {0},
     startTime : {9 * 60, 9 * 60 + 30, 10 * 60, 10 * 60 + 30, 11 * 60},
     duration : {30, 60, 90},
     endDate : {<< >>}, repeatFrequency : {"ONCE"}, repeatOn : {<< >>}]

\* sessions that meet on Wednesday 2024-01-31 (day 30): a monthly one anchored
\* on the 31st, a weekly one of Mondays and Wednesdays at the same time of day,
\* a one-time one later that day, and a monthly and a daily one of day 0
CalendarForms ==
    LET f == [startDate |-> 30, startTime |-> 9 * 60, duration |-> 30, endDate |-> << >>,
              repeatFrequency |-> "MONTHLY", repeatOn |-> << >>]
    IN  {f,
         [f EXCEPT !.startDate = 0, !.startTime = 10 * 60],
         [f EXCEPT !.startDate = 0, !.repeatFrequency = "WEEKLY", !.repeatOn = <<3, 1>>],
         [f EXCEPT !.startTime = 10 * 60, !.repeatFrequency = "ONCE"],
         [f EXCEPT !.startDate = 0, !.startTime = 10 * 60, !.repeatFrequency = "DAILY"]}

\* what the user types into the pause dialog
PauseDates == {0, 7}

\* a weekly session to pause and a one-time session next to it
PauseForms ==
    LET f == [startDate |-> 0, startTime |-> 9 * 60, duration |-> 30, endDate |-> << >>,
              repeatFrequency |-> "WEEKLY", repeatOn |-> <<1>>]
    IN  {f, [f EXCEPT !.startDate = 7, !.startTime = 10 * 60,
                      !.repeatFrequency = "ONCE", !.repeatOn = << >>]}

\* sessions to run: a weekly one and one-time ones of day 0 and day 7
CompletionForms ==
    PauseForms \cup
    {[startDate |-> 0, startTime |-> 10 * 60, duration |-> 30, endDate |-> << >>,
      repeatFrequency |-> "ONCE", repeatOn |-> << >>]}

\* deep work sessions that abut and overlap on day 0
AssistForms ==
    [startDate : {0}, startTime : {9 * 60 + 30, 10 * 60}, duration : {30, 60},
     endDate : {<< >>}, repeatFrequency : {"ONCE"}, repeatOn : {<< >>}]

\* sessions of Monday 2024-01-01: weekly ones repeated on Mondays, on
\* Wednesdays only and on no day, a monthly one and a one-time one
AnchorForms ==
    LET f == [startDate |-> 0, startTime |-> 9 * 60, duration |-> 30, endDate |-> << >>,
              repeatFrequency |-> "WEEKLY", repeatOn |-> <<1>>]
    IN  {f,
         [f EXCEPT !.startTime = 10 * 60, !.repeatOn = <<3>>],
         [f EXCEPT !.startTime = 11 * 60, !.repeatOn = << >>],
         [f EXCEPT !.startTime = 12 * 60, !.repeatFrequency = "MONTHLY", !.repeatOn = << >>],
         [f EXCEPT !.startTime = 13 * 60, !.repeatFrequency = "ONCE", !.repeatOn = << >>],
         [f EXCEPT !.startDate = 7, !.repeatOn = <<3>>]}

\* what getPreSessionRitual returns
Rituals == {"RITUAL"}

\* how the provider lets a call down
AIFailures == {"FAILED", "RATE_LIMITED"}

\* Feedback.focusQuality chosen in the feedback dialog
Feedbacks == {3, 4}

\* a date field of the pause dialog left empty
NoDate == 0 - 1

\* pauses that are over, running and still to come at the two clock points,
\* and fields left empty
PauseInputs == {NoDate, 0, 7, 14}

ClockPoints == {9 * 60, 7 * 24 * 60 + 9 * 60 + 30}
TimeZones == {0 - 300, 0}
ProbeDates == (0 - 1)..60
\* 2023-12-31 .. 2024-05-05: January to April 2024 and the days around them
CalendarProbeDates == (0 - 1)..125

----------------------------------------------------------------------------
(* Date arithmetic *)

MinutesPerDay == 24 * 60

\* Date.getFullYear/getMonth/getDate of a local instant, as a day number
DateOf(t) == t \div MinutesPerDay

\* Date.getHours()*60 + Date.getMinutes() of a local instant
TimeOfDay(t) == t % MinutesPerDay

\* Date.setHours(0,0,0,0)
StartOfDay(t) == DateOf(t) * MinutesPerDay

\* new Date(isoString): the local reading of a stored instant
FromISO(u) == u + tzOffset

\* Date.toISOString()
ToISO(t) == t - tzOffset

\* new Date("YYYY-MM-DD"): a date-only string is parsed as UTC midnight;
\* the same text is what the ISO reading D*1440 denotes
DateOnlyString(d) == d * MinutesPerDay

\* new Date(`${startDate}T${startTime}`): parsed as local time
ParseLocalDateTime(d, m) == d * MinutesPerDay + m

\* Date.getDay(): 0 = Sunday; day 0 is a Monday
Weekday(d) == (d + 1) % 7

MonthLengths == <<31, 29, 31, 30, 31, 30, 31, 31, 30, 31, 30, 31>>

RECURSIVE DayOfMonthFrom(_, _)
DayOfMonthFrom(d, m) ==
    IF d < MonthLengths[m] THEN d + 1
    ELSE DayOfMonthFrom(d - MonthLengths[m], m + 1)

\* Date.getDate() of a day number (days before day 0 fall in December 2023)
DayOfMonth(d) == IF d < 0 THEN 32 + d ELSE DayOfMonthFrom(d, 1)

Includes(s, x) == \E i \in 1..Len(s) : s[i] = x

----------------------------------------------------------------------------
(* Stable sort, Array.prototype.sort with a numeric comparator a.key - b.key; *)
(* the elements are records that carry their sort key in the field `key`     *)

\* insertion that puts an element in front of the elements of equal key
RECURSIVE InsertBeforeEqual(_, _)
InsertBeforeEqual(sorted, x) ==
    IF sorted = << >> THEN <<x>>
    ELSE IF sorted[Len(sorted)].key < x.key THEN Append(sorted, x)
    ELSE Append(InsertBeforeEqual(SubSeq(sorted, 1, Len(sorted) - 1), x),
                sorted[Len(sorted)])

RECURSIVE InsertByKey(_, _)
InsertByKey(sorted, x) ==
    IF sorted = << >> THEN <<x>>
    ELSE IF sorted[Len(sorted)].key <= x.key THEN Append(sorted, x)
    ELSE Append(InsertByKey(SubSeq(sorted, 1, Len(sorted) - 1), x),
                sorted[Len(sorted)])

RECURSIVE SortByKey(_)
SortByKey(s) ==
    IF s = << >> THEN << >>
    ELSE InsertByKey(SortByKey(SubSeq(s, 1, Len(s) - 1)), s[Len(s)])

----------------------------------------------------------------------------
(* Occurrence expander: App.getTasksForDate *)

\* pauses.some(...): the date lies in some pause, both ends inclusive
isPaused(item, checkDate) ==
    \E i \in 1..Len(item.pauses) :
        LET pauseStart == StartOfDay(FromISO(item.pauses[i].startDate))
            pauseEnd == StartOfDay(FromISO(item.pauses[i].endDate))
        IN  checkDate >= pauseStart /\ checkDate <= pauseEnd

\* occursOn with one-time items shown from their anchor date on
occursOnOnceFromAnchor(item, date) ==
    LET checkDate == StartOfDay(date)
        dayOfWeek == Weekday(DateOf(checkDate))
        dayOfMonth == DayOfMonth(DateOf(checkDate))
        itemStartDate == StartOfDay(FromISO(item.startDate))
    IN  IF item.isCancelled THEN FALSE
        ELSE IF item.endDate # << >>
                /\ checkDate > StartOfDay(FromISO(item.endDate[1])) THEN FALSE
        ELSE IF isPaused(item, checkDate) THEN FALSE
        ELSE IF item.repeatFrequency = "ONCE" THEN itemStartDate <= checkDate
        ELSE IF itemStartDate > checkDate THEN FALSE
        ELSE CASE item.repeatFrequency = "DAILY" -> TRUE
               [] item.repeatFrequency = "WEEKLY" -> Includes(item.repeatOn, dayOfWeek)
               [] item.repeatFrequency = "MONTHLY" ->
                      DayOfMonth(DateOf(FromISO(item.startDate))) = dayOfMonth
               [] OTHER -> FALSE

\* occursOn without the test that keeps recurring items off the days before
\* their anchor
occursOnBeforeAnchor(item, date) ==
    LET checkDate == StartOfDay(date)
        dayOfWeek == Weekday(DateOf(checkDate))
        dayOfMonth == DayOfMonth(DateOf(checkDate))
        itemStartDate == StartOfDay(FromISO(item.startDate))
    IN  IF item.isCancelled THEN FALSE
        ELSE IF item.endDate # << >>
                /\ checkDate > StartOfDay(FromISO(item.endDate[1])) THEN FALSE
        ELSE IF isPaused(item, checkDate) THEN FALSE
        ELSE IF item.repeatFrequency = "ONCE" THEN itemStartDate = checkDate
        ELSE CASE item.repeatFrequency = "DAILY" -> TRUE
               [] item.repeatFrequency = "WEEKLY" -> Includes(item.repeatOn, dayOfWeek)
               [] item.repeatFrequency = "MONTHLY" ->
                      DayOfMonth(DateOf(FromISO(item.startDate))) = dayOfMonth
               [] OTHER -> FALSE

\* occursOn with a monthly item clamped to the last day of a shorter month
occursOnClamped(item, date) ==
    LET checkDate == StartOfDay(date)
        dayOfWeek == Weekday(DateOf(checkDate))
        dayOfMonth == DayOfMonth(DateOf(checkDate))
        itemStartDate == StartOfDay(FromISO(item.startDate))
    IN  IF item.isCancelled THEN FALSE
        ELSE IF item.endDate # << >>
                /\ checkDate > StartOfDay(FromISO(item.endDate[1])) THEN FALSE
        ELSE IF isPaused(item, checkDate) THEN FALSE
        ELSE IF item.repeatFrequency = "ONCE" THEN itemStartDate = checkDate
        ELSE IF itemStartDate > checkDate THEN FALSE
        ELSE CASE item.repeatFrequency = "DAILY" -> TRUE
               [] item.repeatFrequency = "WEEKLY" -> Includes(item.repeatOn, dayOfWeek)
               [] item.repeatFrequency = "MONTHLY" ->
                      \/ DayOfMonth(DateOf(FromISO(item.startDate))) = dayOfMonth
                      \/ /\ DayOfMonth(DateOf(FromISO(item.startDate))) > dayOfMonth
                         /\ DayOfMonth(DateOf(checkDate) + 1) = 1
               [] OTHER -> FALSE

\* the filter callback of getTasksForDate; `date` is a local instant
occursOn(item, date) ==
    LET checkDate == StartOfDay(date)
        dayOfWeek == Weekday(DateOf(checkDate))
        dayOfMonth == DayOfMonth(DateOf(checkDate))
        itemStartDate == StartOfDay(FromISO(item.startDate))
    IN  IF item.isCancelled THEN FALSE
        ELSE IF item.endDate # << >>
                /\ checkDate > StartOfDay(FromISO(item.endDate[1])) THEN FALSE
        ELSE IF isPaused(item, checkDate) THEN FALSE
        ELSE IF item.repeatFrequency = "ONCE" THEN itemStartDate = checkDate
        ELSE IF itemStartDate > checkDate THEN FALSE
        ELSE CASE item.repeatFrequency = "DAILY" -> TRUE
               [] item.repeatFrequency = "WEEKLY" -> Includes(item.repeatOn, dayOfWeek)
               [] item.repeatFrequency = "MONTHLY" ->
                      DayOfMonth(DateOf(FromISO(item.startDate))) = dayOfMonth
               [] OTHER -> FALSE

getTasksForDate(sched, date) ==
    LET tasks == SelectSeq(sched, LAMBDA item : occursOn(item, date))
        keyed == [i \in 1..Len(tasks) |->
                     [key |-> TimeOfDay(FromISO(tasks[i].startDate)), item |-> tasks[i]]]
        sorted == SortByKey(keyed)
    IN  [i \in 1..Len(sorted) |-> sorted[i].item]

----------------------------------------------------------------------------
(* Write gate: SessionScheduler.handleSubmit *)

\* settingsService.defaultSettings
settings ==
    [availability |-> [days |-> <<1, 2, 3, 4, 5>>, startTime |-> 9 * 60, endTime |-> 17 * 60],
     holidays |-> << >>]

\* "Settings Enforcement Validation": the first failing check, or "NONE"
settingsError(form) ==
    LET dayOfWeek == Weekday(DateOf(ParseLocalDateTime(form.startDate, form.startTime)))
        days == settings.availability.days
        scheduleStartTotalMinutes == settings.availability.startTime
        scheduleEndTotalMinutes == settings.availability.endTime
        selectedStartTotalMinutes == form.startTime
    IN  IF \E i \in 1..Len(settings.holidays) :
               /\ form.startDate >= settings.holidays[i].startDate
               /\ form.startDate <= settings.holidays[i].endDate
        THEN "HOLIDAY"
        ELSE IF form.repeatFrequency = "DAILY" THEN "DAILY_DISABLED"
        ELSE IF form.repeatFrequency = "WEEKLY" /\ Len(form.repeatOn) = 0 THEN "NO_WEEKDAY"
        ELSE IF form.repeatFrequency = "WEEKLY"
                /\ \E i \in 1..Len(form.repeatOn) : ~Includes(days, form.repeatOn[i])
        THEN "NON_WORKING_DAY_SELECTED"
        ELSE IF form.repeatFrequency # "WEEKLY" /\ ~Includes(days, dayOfWeek)
        THEN "NON_WORKING_DAY"
        ELSE IF selectedStartTotalMinutes < scheduleStartTotalMinutes
                \/ selectedStartTotalMinutes > scheduleEndTotalMinutes
        THEN "OUTSIDE_WORKING_HOURS"
        ELSE IF selectedStartTotalMinutes + form.duration > scheduleEndTotalMinutes
        THEN "ENDS_AFTER_WORKING_HOURS"
        ELSE "NONE"

\* the item's time of day put on the calendar date of `date`
getEffectiveStartTime(item, date) ==
    StartOfDay(date) + TimeOfDay(FromISO(item.startDate))

\* the filter callback that selects the existing items of the candidate's day
sameDayFilter(item, newItemStart) ==
    LET itemStartDate == FromISO(item.startDate)
        itemDateOnly == StartOfDay(itemStartDate)
        newItemDateOnly == StartOfDay(newItemStart)
        dayOfWeek == Weekday(DateOf(newItemStart))
    IN  IF item.repeatFrequency = "ONCE" /\ itemDateOnly # newItemDateOnly THEN FALSE
        ELSE CASE item.repeatFrequency = "ONCE" -> itemDateOnly = newItemDateOnly
               [] item.repeatFrequency = "DAILY" -> TRUE
               [] item.repeatFrequency = "WEEKLY" -> Includes(item.repeatOn, dayOfWeek)
               [] item.repeatFrequency = "MONTHLY" ->
                      DayOfMonth(DateOf(itemStartDate)) = DayOfMonth(DateOf(newItemStart))
               [] OTHER -> FALSE

\* schedule.filter(...).map(...).sort(...): intervals of the candidate's day
tasksOnSameDay(sched, newItemStart) ==
    LET same == SelectSeq(sched, LAMBDA item : sameDayFilter(item, newItemStart))
    IN  SortByKey([i \in 1..Len(same) |->
            LET start == getEffectiveStartTime(same[i], newItemStart)
            IN  [id |-> same[i].id,
                 key |-> start,
                 effectiveStart |-> start,
                 effectiveEnd |-> start + same[i].durationMinutes]])

\* overlaps with the ends of the intervals counted in
overlapsClosed(start, end, task) == start <= task.effectiveEnd /\ end >= task.effectiveStart

\* the overlap test of the two loops
overlaps(start, end, task) == start < task.effectiveEnd /\ end > task.effectiveStart

\* Array.prototype.find / the for..of with break: index of the first hit, 0 if none
firstOverlap(tasks, start, end) ==
    IF \E i \in 1..Len(tasks) : overlaps(start, end, tasks[i])
    THEN CHOOSE i \in 1..Len(tasks) :
             /\ overlaps(start, end, tasks[i])
             /\ \A j \in 1..(i - 1) : ~overlaps(start, end, tasks[j])
    ELSE 0

\* probe that takes the end of the first conflict without looking again
probeOnce(tasks, duration, proposedStart, fuel) ==
    [proposedStart |-> proposedStart, slotFound |-> TRUE, trace |-> <<proposedStart>>]

\* probe that moves to the start of the conflicting session instead of its end
RECURSIVE probeToStart(_, _, _, _)
probeToStart(tasks, duration, proposedStart, fuel) ==
    LET proposedEnd == proposedStart + duration
        conflictingTask == firstOverlap(tasks, proposedStart, proposedEnd)
    IN  IF conflictingTask = 0
        THEN [proposedStart |-> proposedStart, slotFound |-> TRUE, trace |-> <<proposedStart>>]
        ELSE IF fuel = 0
        THEN [proposedStart |-> proposedStart, slotFound |-> FALSE, trace |-> <<proposedStart>>]
        ELSE LET rest == probeToStart(tasks, duration,
                                      tasks[conflictingTask].effectiveStart, fuel - 1)
             IN  [rest EXCEPT !.trace = <<proposedStart>> \o @]

\* while (!slotFound) { ... }: at most `fuel` assignments
\* proposedStart = conflictingTask.effectiveEnd are followed; slotFound tells
\* whether the loop has ended within them, trace lists the values proposedStart
\* takes, the one the loop is entered with first
RECURSIVE probe(_, _, _, _)
probe(tasks, duration, proposedStart, fuel) ==
    LET proposedEnd == proposedStart + duration
        conflictingTask == firstOverlap(tasks, proposedStart, proposedEnd)
    IN  IF conflictingTask = 0
        THEN [proposedStart |-> proposedStart, slotFound |-> TRUE, trace |-> <<proposedStart>>]
        ELSE IF fuel = 0
        THEN [proposedStart |-> proposedStart, slotFound |-> FALSE, trace |-> <<proposedStart>>]
        ELSE LET rest == probe(tasks, duration, tasks[conflictingTask].effectiveEnd, fuel - 1)
             IN  [rest EXCEPT !.trace = <<proposedStart>> \o @]

\* assignments granted to the loop before it is declared not to end
probeFuel(tasks) == 2 * Len(tasks) + 2

\* "Conflict validation and suggestion logic"
findSlot(sched, newItemStart, duration) ==
    LET newItemEnd == newItemStart + duration
        tasks == tasksOnSameDay(sched, newItemStart)
        initialConflict == firstOverlap(tasks, newItemStart, newItemEnd)
    IN  IF initialConflict = 0
        THEN [conflict |-> FALSE, with |-> 0, proposedStart |-> newItemStart,
              slotFound |-> TRUE, trace |-> << >>]
        ELSE LET p == probe(tasks, duration, tasks[initialConflict].effectiveEnd,
                            probeFuel(tasks))
             IN  [conflict |-> TRUE, with |-> tasks[initialConflict].id,
                  proposedStart |-> p.proposedStart,
                  slotFound |-> p.slotFound, trace |-> p.trace]

\* the checks with a request held back while the AI call is in flight
submitErrorAwaitingAI(sched, form, clock) ==
    LET newItemStart == ParseLocalDateTime(form.startDate, form.startTime)
        slot == findSlot(sched, newItemStart, form.duration)
    IN  IF form.duration < 1 THEN "IGNORED"
        ELSE IF aiCall = "PENDING" THEN "AI_PENDING"
        ELSE IF settingsEnforced /\ settingsError(form) # "NONE" THEN settingsError(form)
        ELSE IF newItemStart < clock THEN "PAST"
        ELSE IF form.endDate # << >>
                /\ FromISO(DateOnlyString(form.endDate[1])) < newItemStart THEN "INVALID_RANGE"
        ELSE IF slot.conflict THEN (IF slot.slotFound THEN "CONFLICT" ELSE "HANG")
        ELSE "NONE"

\* the error handleSubmit ends with: "NONE" when it reaches onAddItem,
\* "IGNORED" for the silent early return, "HANG" when the probe never ends
submitError(sched, form, clock) ==
    LET newItemStart == ParseLocalDateTime(form.startDate, form.startTime)
        slot == findSlot(sched, newItemStart, form.duration)
    IN  IF form.duration < 1 THEN "IGNORED"
        ELSE IF settingsEnforced /\ settingsError(form) # "NONE" THEN settingsError(form)
        ELSE IF newItemStart < clock THEN "PAST"
        ELSE IF form.endDate # << >>
                /\ FromISO(DateOnlyString(form.endDate[1])) < newItemStart THEN "INVALID_RANGE"
        ELSE IF slot.conflict THEN (IF slot.slotFound THEN "CONFLICT" ELSE "HANG")
        ELSE "NONE"

\* baseItemData
newItem(sched, form, clock) ==
    [id |-> Len(sched) + 1,
     durationMinutes |-> form.duration,
     startDate |-> ToISO(ParseLocalDateTime(form.startDate, form.startTime)),
     endDate |-> IF form.repeatFrequency # "ONCE" /\ form.endDate # << >>
                 THEN <<DateOnlyString(form.endDate[1])>> ELSE << >>,
     repeatFrequency |-> form.repeatFrequency,
     repeatOn |-> IF form.repeatFrequency = "WEEKLY"
                  THEN LET k == SortByKey([i \in 1..Len(form.repeatOn) |-> [key |-> form.repeatOn[i]]])
                       IN  [i \in 1..Len(k) |-> k[i].key]
                  ELSE << >>,
     status |-> "PENDING",
     isCancelled |-> FALSE,
     pauses |-> << >>,
     completions |-> << >>,
     ritualChecklist |-> ritual,
     wasCreatedWithAI |-> aiCall = "FETCHED"]

\* the request with a conflicting session stored at the slot that is suggested
addItemAtSuggestion(prev, form, clock) ==
    LET err == submitError(prev, form, clock)
        slot == findSlot(prev, ParseLocalDateTime(form.startDate, form.startTime),
                         form.duration)
    IN  IF err = "NONE" THEN Append(prev, newItem(prev, form, clock))
        ELSE IF err = "CONFLICT"
        THEN Append(prev, [newItem(prev, form, clock) EXCEPT
                              !.startDate = ToISO(slot.proposedStart)])
        ELSE prev

\* what handleSubmit does to the schedule: onAddItem(newSession), App's
\* setSchedule(prev => [...prev, item]), is reached only when no check has
\* returned before it
addItem(prev, form, clock) ==
    IF submitError(prev, form, clock) = "NONE"
    THEN Append(prev, newItem(prev, form, clock))
    ELSE prev

\* the dashboard is on screen and no dialog covers it
dashboardShown == taskToPause = << >> /\ activeSession = << >> /\ sessionForFeedback = << >>

handleSubmit(form) ==
    LET err == submitError(schedule, form, now)
        slot == findSlot(schedule, ParseLocalDateTime(form.startDate, form.startTime),
                         form.duration)
    IN  /\ dashboardShown
        /\ err = "NONE" => Len(schedule) < MaxItems
        /\ error' = IF err = "IGNORED" THEN "NONE" ELSE err
        /\ suggestion' = IF err = "CONFLICT" THEN <<TimeOfDay(slot.proposedStart)>> ELSE << >>
        /\ schedule' = addItem(schedule, form, now)
        /\ ritual' = IF err = "NONE" THEN << >> ELSE ritual
        /\ aiCall' = IF err = "NONE" THEN "IDLE" ELSE aiCall
        /\ UNCHANGED <<now, tzOffset, settingsEnforced, taskToPause, activeSession, sessionForFeedback>>

\* fetchAIAssistance up to the await: the three requests are sent
fetchAIAssistance ==
    /\ dashboardShown
    /\ aiCall # "PENDING"
    /\ ritual' = << >>
    /\ aiCall' = "PENDING"
    /\ UNCHANGED <<schedule, now, tzOffset, settingsEnforced, error, suggestion, taskToPause,
                   activeSession, sessionForFeedback>>

\* the await returns the three results
fetchAIAssistanceFulfilled(generatedRitual) ==
    /\ aiCall = "PENDING"
    /\ ritual' = <<generatedRitual>>
    /\ aiCall' = "FETCHED"
    /\ UNCHANGED <<schedule, now, tzOffset, settingsEnforced, error, suggestion, taskToPause,
                   activeSession, sessionForFeedback>>

\* the await throws: the provider failed or the quota is used up
fetchAIAssistanceRejected(reason) ==
    /\ aiCall = "PENDING"
    /\ aiCall' = reason
    /\ error' = "AI_FAILED"
    /\ suggestion' = << >>
    /\ UNCHANGED <<schedule, now, tzOffset, settingsEnforced, taskToPause,
                   activeSession, sessionForFeedback, ritual>>

----------------------------------------------------------------------------
(* Lifecycle: App handlers *)

indexOf(sched, id) ==
    IF \E i \in 1..Len(sched) : sched[i].id = id
    THEN CHOOSE i \in 1..Len(sched) : sched[i].id = id
    ELSE 0

\* the lists of the dashboard that carry Pause/Delete buttons
oneTimeSchedule(sched) ==
    SelectSeq(sched, LAMBDA item : item.repeatFrequency = "ONCE" /\ ~item.isCancelled)

recurringSchedules(sched) ==
    SelectSeq(sched, LAMBDA item :
        /\ item.repeatFrequency # "ONCE"
        /\ (item.endDate = << >> \/ FromISO(item.endDate[1]) >= StartOfDay(now)))

\* ScheduleListItem.effectiveStatus; displayDate is << >> when undefined
effectiveStatus(item, displayDate) ==
    LET isCompleted ==
            /\ displayDate # << >>
            /\ \E i \in 1..Len(item.completions) :
                   item.completions[i].date = DateOf(displayDate[1])
    IN  IF isCompleted THEN "COMPLETED" ELSE item.status

\* the items whose row shows the Pause/Delete buttons: pending items of the
\* Once view (displayed with their own start date) and of the recurring views
\* (displayed without a date)
actionable(sched) ==
    {oneTimeSchedule(sched)[i] : i \in
        {j \in 1..Len(oneTimeSchedule(sched)) :
            effectiveStatus(oneTimeSchedule(sched)[j],
                            <<FromISO(oneTimeSchedule(sched)[j].startDate)>>) = "PENDING"}}
    \cup
    {recurringSchedules(sched)[i] : i \in
        {j \in 1..Len(recurringSchedules(sched)) :
            effectiveStatus(recurringSchedules(sched)[j], << >>) = "PENDING"}}

\* Delete is offered for every such row
deletable(sched) == {item.id : item \in actionable(sched)}

\* the updater with Delete switching the cancellation of a one-time item
deleteItemToggling(prev, itemId, clock) ==
    [i \in 1..Len(prev) |->
        IF prev[i].id = itemId
        THEN IF prev[i].repeatFrequency = "ONCE"
             THEN [prev[i] EXCEPT !.isCancelled = ~@]
             ELSE [prev[i] EXCEPT !.endDate = <<ToISO(clock)>>]
        ELSE prev[i]]

\* the updater with Delete taking the item out of the list
deleteItemRemoving(prev, itemId, clock) ==
    SelectSeq(prev, LAMBDA item : item.id # itemId)

\* prev => prev.map(...): the updater handleDeleteItem hands to setSchedule;
\* `clock` is what new Date() reads
deleteItem(prev, itemId, clock) ==
    [i \in 1..Len(prev) |->
        IF prev[i].id = itemId
        THEN IF prev[i].repeatFrequency = "ONCE"
             THEN [prev[i] EXCEPT !.isCancelled = TRUE]
             ELSE [prev[i] EXCEPT !.endDate = <<ToISO(clock)>>]
        ELSE prev[i]]

handleDeleteItem(itemId) ==
    /\ dashboardShown
    /\ schedule' = deleteItem(schedule, itemId, now)
    /\ UNCHANGED <<now, tzOffset, settingsEnforced, error, suggestion, taskToPause, activeSession, sessionForFeedback, ritual, aiCall>>

\* ScheduleListItem.isCurrentlyPaused: judged on the last pause and the clock
isCurrentlyPaused(item) ==
    /\ Len(item.pauses) > 0
    /\ LET lastPause == item.pauses[Len(item.pauses)]
       IN  now >= FromISO(lastPause.startDate) /\ now <= FromISO(lastPause.endDate)

\* Pause is offered for the recurring ones that are not currently paused
pausable(sched) ==
    {item.id : item \in
        {x \in actionable(sched) : x.repeatFrequency # "ONCE" /\ ~isCurrentlyPaused(x)}}

\* the items that have fewer than n pauses: the exploration stops there
pauseRoom(sched, n) == {sched[i].id : i \in {j \in 1..Len(sched) : Len(sched[j].pauses) < n}}

handlePauseItem(itemId) ==
    /\ dashboardShown
    /\ indexOf(schedule, itemId) # 0
    /\ taskToPause' = <<itemId>>
    /\ UNCHANGED <<schedule, now, tzOffset, settingsEnforced, error, suggestion, activeSession, sessionForFeedback, ritual, aiCall>>

\* the check of the dialog without the comparison of the two dates
pauseErrorUnordered(startDate, endDate) ==
    IF startDate = NoDate \/ endDate = NoDate THEN "REQUIRED" ELSE "NONE"

\* PauseTaskModal.handleSubmit: the checks of the dialog, "NONE" if they pass
pauseError(startDate, endDate) ==
    IF startDate = NoDate \/ endDate = NoDate THEN "REQUIRED"
    ELSE IF FromISO(DateOnlyString(endDate)) < FromISO(DateOnlyString(startDate))
    THEN "INVALID_RANGE" ELSE "NONE"

\* prev => prev.map(...): the updater handlePauseSubmit hands to setSchedule
appendPause(prev, taskId, pauseData) ==
    [i \in 1..Len(prev) |->
        IF prev[i].id = taskId
        THEN [prev[i] EXCEPT !.pauses = Append(@, pauseData)]
        ELSE prev[i]]

handlePauseSubmit(pauseData) ==
    /\ taskToPause # << >>
    /\ schedule' = appendPause(schedule, taskToPause[1], pauseData)
    /\ taskToPause' = << >>
    /\ UNCHANGED <<now, tzOffset, settingsEnforced, error, suggestion, activeSession, sessionForFeedback, ritual, aiCall>>

\* the Pause button of the dialog: PauseTaskModal.handleSubmit, then onSubmit
PauseTaskModalSubmit(startDate, endDate) ==
    IF pauseError(startDate, endDate) = "NONE"
    THEN handlePauseSubmit([startDate |-> DateOnlyString(startDate),
                            endDate |-> DateOnlyString(endDate)])
    ELSE taskToPause # << >> /\ UNCHANGED vars

\* the Cancel button of the dialog: onClose
PauseTaskModalClose ==
    /\ taskToPause # << >>
    /\ taskToPause' = << >>
    /\ UNCHANGED <<schedule, now, tzOffset, settingsEnforced, error, suggestion, activeSession, sessionForFeedback, ritual, aiCall>>

\* Unpause offered for every recurring one that has a pause
unpausableAnyPause(sched) ==
    {item.id : item \in
        {x \in actionable(sched) : x.repeatFrequency # "ONCE" /\ Len(x.pauses) > 0}}

\* Unpause is offered for the recurring ones that are currently paused
unpausable(sched) ==
    {item.id : item \in
        {x \in actionable(sched) : x.repeatFrequency # "ONCE" /\ isCurrentlyPaused(x)}}

\* the updater with every pause that is still to end cut short
unpauseEveryPause(prev, itemId, clock) ==
    [i \in 1..Len(prev) |->
        IF prev[i].id = itemId
        THEN [prev[i] EXCEPT !.pauses =
                 [k \in 1..Len(@) |->
                     IF FromISO(@[k].endDate) > clock
                     THEN [@[k] EXCEPT !.endDate = ToISO(clock)] ELSE @[k]]]
        ELSE prev[i]]

\* prev => prev.map(...): the updater handleUnpauseItem hands to setSchedule;
\* `clock` is what new Date() reads
unpauseItem(prev, itemId, clock) ==
    [i \in 1..Len(prev) |->
        IF prev[i].id = itemId /\ Len(prev[i].pauses) > 0
        THEN LET last == Len(prev[i].pauses)
                 lastPause == prev[i].pauses[last]
             IN  IF FromISO(lastPause.endDate) > clock
                 THEN [prev[i] EXCEPT !.pauses[last].endDate = ToISO(clock)]
                 ELSE prev[i]
        ELSE prev[i]]

handleUnpauseItem(itemId) ==
    /\ dashboardShown
    /\ schedule' = unpauseItem(schedule, itemId, now)
    /\ UNCHANGED <<now, tzOffset, settingsEnforced, error, suggestion, taskToPause, activeSession, sessionForFeedback, ritual, aiCall>>

\* the items whose row shows the Start button: the pending ones of Today's
\* Plan (displayed with today's date) and of the Once view (displayed with
\* their own start date)
startable(sched) ==
    {getTasksForDate(sched, now)[i].id : i \in
        {j \in 1..Len(getTasksForDate(sched, now)) :
            effectiveStatus(getTasksForDate(sched, now)[j], <<now>>) = "PENDING"}}
    \cup
    {oneTimeSchedule(sched)[i].id : i \in
        {j \in 1..Len(oneTimeSchedule(sched)) :
            effectiveStatus(oneTimeSchedule(sched)[j],
                            <<FromISO(oneTimeSchedule(sched)[j].startDate)>>) = "PENDING"}}

handleStartSession(sessionId) ==
    /\ dashboardShown
    /\ indexOf(schedule, sessionId) # 0
    /\ activeSession' = <<sessionId>>
    /\ UNCHANGED <<schedule, now, tzOffset, settingsEnforced, error, suggestion,
                   taskToPause, sessionForFeedback, ritual, aiCall>>

handleBackToDashboard ==
    /\ activeSession # << >>
    /\ activeSession' = << >>
    /\ UNCHANGED <<schedule, now, tzOffset, settingsEnforced, error, suggestion,
                   taskToPause, sessionForFeedback, ritual, aiCall>>

handleSessionComplete ==
    /\ activeSession # << >>
    /\ sessionForFeedback' = <<[item |-> activeSession[1], date |-> now]>>
    /\ activeSession' = << >>
    /\ UNCHANGED <<schedule, now, tzOffset, settingsEnforced, error, suggestion, taskToPause, ritual, aiCall>>

\* the updater with the completion of a one-time item kept in its status only
recordCompletionStatusOnly(prev, completedId, completionDate, feedback) ==
    [i \in 1..Len(prev) |->
        IF prev[i].id = completedId
        THEN IF prev[i].repeatFrequency = "ONCE"
             THEN [prev[i] EXCEPT !.status = "COMPLETED"]
             ELSE prev[i]
        ELSE prev[i]]

\* prev => prev.map(...): the updater handleFeedbackSubmit hands to setSchedule;
\* completionDate is the local instant the session was completed at
recordCompletion(prev, completedId, completionDate, feedback) ==
    [i \in 1..Len(prev) |->
        IF prev[i].id = completedId
        THEN LET newCompletion == [date |-> DateOf(completionDate), feedback |-> feedback]
                 updatedCompletions == Append(prev[i].completions, newCompletion)
             IN  IF prev[i].repeatFrequency = "ONCE"
                 THEN [prev[i] EXCEPT !.completions = updatedCompletions,
                                      !.status = "COMPLETED"]
                 ELSE [prev[i] EXCEPT !.completions = updatedCompletions]
        ELSE prev[i]]

handleFeedbackSubmit(feedback) ==
    /\ sessionForFeedback # << >>
    /\ schedule' = recordCompletion(schedule, sessionForFeedback[1].item,
                                    sessionForFeedback[1].date, feedback)
    /\ sessionForFeedback' = << >>
    /\ UNCHANGED <<now, tzOffset, settingsEnforced, error, suggestion, taskToPause, activeSession, ritual, aiCall>>

\* the clock moves on
Tick(t) ==
    /\ t > now
    /\ now' = t
    /\ UNCHANGED <<schedule, tzOffset, settingsEnforced, error, suggestion, taskToPause, activeSession, sessionForFeedback, ritual, aiCall>>

Init ==
    /\ schedule = << >>
    /\ now \in ClockPoints
    /\ tzOffset \in TimeZones
    /\ settingsEnforced \in BOOLEAN
    /\ error = "NONE"
    /\ suggestion = << >>
    /\ taskToPause = << >>
    /\ activeSession = << >>
    /\ sessionForFeedback = << >>
    /\ ritual = << >>
    /\ aiCall = "IDLE"

Next ==
    \/ \E form \in Forms : handleSubmit(form)
    \/ \E id \in deletable(schedule) : handleDeleteItem(id)
    \/ \E id \in pausable(schedule) \cap pauseRoom(schedule, MaxPauses) : handlePauseItem(id)
    \/ \E s \in PauseDates, e \in PauseDates : PauseTaskModalSubmit(s, e)
    \/ PauseTaskModalClose
    \/ \E t \in ClockPoints : Tick(t)

Spec == Init /\ [][Next]_vars

\* the write gate alone, fed with one-time sessions of one day
NextSlots ==
    \/ \E form \in SlotForms : handleSubmit(form)
    \/ \E t \in ClockPoints : Tick(t)

SpecSlots == Init /\ [][NextSlots]_vars

\* the write gate fed with the sessions that meet on 2024-01-31
NextCalendar ==
    \/ \E form \in CalendarForms : handleSubmit(form)
    \/ \E t \in ClockPoints : Tick(t)

SpecCalendar == Init /\ [][NextCalendar]_vars

\* pausing and unpausing a weekly session
NextPauses ==
    \/ \E form \in PauseForms : handleSubmit(form)
    \/ \E id \in pausable(schedule) \cap pauseRoom(schedule, MaxPausesDeep) : handlePauseItem(id)
    \/ \E s \in PauseInputs, e \in PauseInputs : PauseTaskModalSubmit(s, e)
    \/ PauseTaskModalClose
    \/ \E id \in unpausable(schedule) : handleUnpauseItem(id)
    \/ \E t \in ClockPoints : Tick(t)

SpecPauses == Init /\ [][NextPauses]_vars

\* running sessions and recording their completion
NextCompletions ==
    \/ \E form \in CompletionForms : handleSubmit(form)
    \/ \E id \in startable(schedule) : handleStartSession(id)
    \/ handleBackToDashboard
    \/ handleSessionComplete
    \/ \E feedback \in Feedbacks : handleFeedbackSubmit(feedback)
    \/ \E t \in ClockPoints : Tick(t)

SpecCompletions == Init /\ [][NextCompletions]_vars

\* every lifecycle operation on a weekly and a one-time session
NextLifecycle ==
    \/ \E form \in PauseForms : handleSubmit(form)
    \/ \E id \in deletable(schedule) : handleDeleteItem(id)
    \/ \E id \in pausable(schedule) \cap pauseRoom(schedule, MaxPauses) : handlePauseItem(id)
    \/ \E s \in PauseDates, e \in PauseDates : PauseTaskModalSubmit(s, e)
    \/ PauseTaskModalClose
    \/ \E id \in unpausable(schedule) : handleUnpauseItem(id)
    \/ \E id \in startable(schedule) : handleStartSession(id)
    \/ handleBackToDashboard
    \/ handleSessionComplete
    \/ \E feedback \in Feedbacks : handleFeedbackSubmit(feedback)
    \/ \E t \in ClockPoints : Tick(t)

SpecLifecycle == Init /\ [][NextLifecycle]_vars

\* the write gate fed with weekly sessions whose days leave out their start
NextAnchor ==
    \/ \E form \in AnchorForms : handleSubmit(form)
    \/ \E t \in ClockPoints : Tick(t)

SpecAnchor == Init /\ [][NextAnchor]_vars

\* the scheduler form with the AI assistance running beside it
NextAssist ==
    \/ \E form \in AssistForms : handleSubmit(form)
    \/ fetchAIAssistance
    \/ \E generatedRitual \in Rituals : fetchAIAssistanceFulfilled(generatedRitual)
    \/ \E reason \in AIFailures : fetchAIAssistanceRejected(reason)
    \/ \E t \in ClockPoints : Tick(t)

SpecAssist == Init /\ [][NextAssist]_vars

----------------------------------------------------------------------------
(* Properties *)

\* the minutes a session of `duration` minutes that starts at `start` occupies
Minutes(start, duration) == start .. (start + duration - 1)

\* the minutes `item` occupies on the calendar date of the local instant `date`
OccurrenceMinutes(item, date) ==
    Minutes(StartOfDay(date) + TimeOfDay(FromISO(item.startDate)), item.durationMinutes)

MidnightOf(d) == d * MinutesPerDay

\* the calendar date the anchor of `item` falls on
AnchorDate(item) == DateOf(FromISO(item.startDate))

\* the form passes every check that precedes the conflict validation
PassesPreChecks(form) == submitError(<< >>, form, now) = "NONE"

FormStart(form) == ParseLocalDateTime(form.startDate, form.startTime)

\* the form passes the checks the caller runs before the gate proper
PassesSettings(form) ==
    form.duration >= 1 /\ (settingsEnforced => settingsError(form) = "NONE")

\* the stored items the write gate takes to occur on the day of `start`
\* and whose minutes there meet those of the candidate
Blocking(start, duration) ==
    {i \in 1..Len(schedule) :
        /\ sameDayFilter(schedule[i], start)
        /\ OccurrenceMinutes(schedule[i], start) \cap Minutes(start, duration) # {}}

\* C1: no two stored definitions occupy a common minute on any calendar date
\* on which both occur, whichever of them was stored first.
C1_ScheduleConsistency ==
    \A i, j \in 1..Len(schedule) : \A d \in ProbeDates :
        (/\ i < j
         /\ occursOn(schedule[i], MidnightOf(d))
         /\ occursOn(schedule[j], MidnightOf(d)))
        => OccurrenceMinutes(schedule[i], MidnightOf(d))
               \cap OccurrenceMinutes(schedule[j], MidnightOf(d)) = {}

\* C2: a form that passes the preceding checks reaches onAddItem exactly when
\* no existing item of the candidate's day shares a minute with
\* [start, start + duration); sessions that only touch do not conflict.
C2_OkIffNoOverlap ==
    \A form \in SlotForms :
        PassesPreChecks(form) =>
            (submitError(schedule, form, now) = "NONE"
                <=> Blocking(FormStart(form), form.duration) = {})

\* C2 witness: a session was stored that starts in the minute an earlier one ends
C2_AbutmentAccepted ==
    \E i, j \in 1..Len(schedule) :
        /\ i < j
        /\ AnchorDate(schedule[i]) = AnchorDate(schedule[j])
        /\ FromISO(schedule[j].startDate)
               = FromISO(schedule[i].startDate) + schedule[i].durationMinutes

\* the sessions of the worked example: A 09:00-10:30, B 10:30-11:00
ExampleSchedule ==
    LET a == [startDate |-> 0, startTime |-> 9 * 60, duration |-> 90, endDate |-> << >>,
              repeatFrequency |-> "ONCE", repeatOn |-> << >>]
        b == [a EXCEPT !.startTime = 10 * 60 + 30, !.duration = 30]
    IN  <<newItem(<< >>, a, 0), newItem(<<1>>, b, 0)>>

\* C3: whenever the gate reports a conflict, the slot it suggests shares no
\* minute with any existing item of the day, is the end of one of them and lies
\* after the requested start; the message quotes its time of day.  For A
\* 09:00-10:30, B 10:30-11:00 and 60 minutes asked at 09:30 it is 11:00.
C3_SuggestionIsFree ==
    /\ \A form \in SlotForms :
          LET start == FormStart(form)
              slot == findSlot(schedule, start, form.duration)
              same == {i \in 1..Len(schedule) : sameDayFilter(schedule[i], start)}
          IN  slot.conflict =>
                /\ slot.slotFound
                /\ \A i \in same :
                      OccurrenceMinutes(schedule[i], start)
                          \cap Minutes(slot.proposedStart, form.duration) = {}
                /\ \E i \in same :
                      slot.proposedStart = getEffectiveStartTime(schedule[i], start)
                                               + schedule[i].durationMinutes
                /\ slot.proposedStart > start
    /\ error = "CONFLICT" =>
          /\ suggestion # << >>
          /\ \E i \in 1..Len(schedule) :
                suggestion[1] = TimeOfDay(FromISO(schedule[i].startDate)
                                              + schedule[i].durationMinutes)
    /\ findSlot(ExampleSchedule, 9 * 60 + 30, 60).conflict
    /\ findSlot(ExampleSchedule, 9 * 60 + 30, 60).proposedStart = 11 * 60

\* C3 witness: with A and B stored, the request of the example has been turned
\* down with the suggestion 11:00
C3_ExampleRejected ==
    /\ schedule = ExampleSchedule
    /\ error = "CONFLICT"
    /\ suggestion = <<11 * 60>>

\* C4: the probe ends: every value proposedStart takes exceeds the one before,
\* and the loop assigns proposedStart at most once per existing interval.
C4_ProbeTerminates ==
    \A form \in SlotForms :
        LET start == FormStart(form)
            slot == findSlot(schedule, start, form.duration)
            tasks == tasksOnSameDay(schedule, start)
        IN  slot.conflict =>
              /\ slot.slotFound
              /\ Len(slot.trace) - 1 <= Len(tasks)
              /\ \A k \in 1..(Len(slot.trace) - 1) : slot.trace[k] < slot.trace[k + 1]

\* C4 witness: a request was turned down after the probe had to move on from
\* the end of the session it first ran into
C4_ProbeAdvanced ==
    /\ error = "CONFLICT"
    /\ \E form \in SlotForms :
          LET slot == findSlot(schedule, FormStart(form), form.duration)
          IN  /\ slot.conflict
              /\ Len(slot.trace) >= 3
              /\ suggestion = <<TimeOfDay(slot.proposedStart)>>

\* the session the last step appended, if it appended one
Added == Len(schedule') = Len(schedule) + 1

\* C5: a request whose start is not strictly after the clock is turned down
\* with the past-date error, and no step stores a session that starts at or
\* before the instant it is submitted.
C5_PastDateRejected ==
    /\ [](\A form \in Forms :
            (PassesSettings(form) /\ FormStart(form) <= now)
            => submitError(schedule, form, now) = "PAST")
    /\ [][Added => FromISO(schedule'[Len(schedule')].startDate) > now]_vars

\* C6: a recurring request with an end date that gets as far as the range
\* check is turned down there exactly when the end date is an earlier calendar
\* date than the start; an end date on the start date is let through.
C6_EndDateRange ==
    \A form \in Forms :
        (/\ form.repeatFrequency # "ONCE"
         /\ form.endDate # << >>
         /\ PassesSettings(form)
         /\ FormStart(form) >= now)
        => (submitError(schedule, form, now) = "INVALID_RANGE"
                <=> form.endDate[1] < form.startDate)

\* cancelled, ended before the date of `start`, or paused on it
SoftDeletedOrPaused(item, start) ==
    \/ item.isCancelled
    \/ item.endDate # << >> /\ DateOf(FromISO(item.endDate[1])) < DateOf(start)
    \/ isPaused(item, StartOfDay(start))

\* C7: stored items that are cancelled, ended before the candidate's date or
\* paused on it do not block: a request that runs into such items only reaches
\* onAddItem.
C7_SoftDeletedNeverBlocks ==
    \A form \in Forms :
        (/\ PassesPreChecks(form)
         /\ \A i \in Blocking(FormStart(form), form.duration) :
                SoftDeletedOrPaused(schedule[i], FormStart(form)))
        => submitError(schedule, form, now) = "NONE"

\* a recurring item whose anchor date is after the date of `start`
AnchoredLater(item, start) ==
    item.repeatFrequency # "ONCE" /\ AnchorDate(item) > DateOf(start)

\* C8: a recurring item anchored after the candidate's date is never the
\* reason of a conflict: a request that runs into such items only reaches
\* onAddItem.
C8_FutureAnchorNeverBlocks ==
    \A form \in Forms :
        (/\ PassesPreChecks(form)
         /\ \A i \in Blocking(FormStart(form), form.duration) :
                AnchoredLater(schedule[i], FormStart(form)))
        => submitError(schedule, form, now) = "NONE"

\* the instants of a probed day getTasksForDate is called with
ProbeInstants(d) == {MidnightOf(d), MidnightOf(d) + 9 * 60, MidnightOf(d) + 23 * 60 + 59}

Listed(item, date) ==
    LET tasks == getTasksForDate(schedule, date)
    IN  \E k \in 1..Len(tasks) : tasks[k].id = item.id

\* C9: a one-time item is listed for a day only if that day is its anchor
\* date, and unless it is cancelled or paused it is listed for that day.
C9_OnceOnAnchorDateOnly ==
    \A i \in 1..Len(schedule) :
        schedule[i].repeatFrequency = "ONCE" =>
            \A d \in ProbeDates : \A t \in ProbeInstants(d) :
                /\ Listed(schedule[i], t) => d = AnchorDate(schedule[i])
                /\ (~schedule[i].isCancelled /\ schedule[i].pauses = << >>
                        /\ d = AnchorDate(schedule[i]))
                      => Listed(schedule[i], t)

\* C9 witness: a one-time item of day 7 is stored and listed for day 7
C9_OnceListed ==
    \E i \in 1..Len(schedule) :
        /\ schedule[i].repeatFrequency = "ONCE"
        /\ AnchorDate(schedule[i]) = 7
        /\ Listed(schedule[i], MidnightOf(7) + 9 * 60)
        /\ ~Listed(schedule[i], MidnightOf(0))

Plain(item) == item.endDate = << >> /\ item.pauses = << >> /\ ~item.isCancelled

\* C10: without end date, pause and cancellation a weekly item occurs on
\* exactly the days from its anchor date on whose weekday is selected, and a
\* daily item on exactly the days from its anchor date on.
C10_WeeklyAndDaily ==
    \A i \in 1..Len(schedule) :
        Plain(schedule[i]) =>
            /\ schedule[i].repeatFrequency = "WEEKLY" =>
                  \A d \in ProbeDates : \A t \in ProbeInstants(d) :
                      occursOn(schedule[i], t)
                          <=> (/\ \E k \in 1..Len(schedule[i].repeatOn) :
                                     schedule[i].repeatOn[k] = (d + 1) % 7
                               /\ d >= AnchorDate(schedule[i]))
            /\ schedule[i].repeatFrequency = "DAILY" =>
                  \A d \in ProbeDates : \A t \in ProbeInstants(d) :
                      occursOn(schedule[i], t) <=> d >= AnchorDate(schedule[i])

\* C10 witness: a weekly item anchored on day 7 occurs on the Monday after and
\* not on the Monday before
C10_WeeklyStored ==
    \E i \in 1..Len(schedule) :
        /\ schedule[i].repeatFrequency = "WEEKLY"
        /\ Plain(schedule[i])
        /\ AnchorDate(schedule[i]) = 7
        /\ occursOn(schedule[i], MidnightOf(14))
        /\ ~occursOn(schedule[i], MidnightOf(0))

\* the pause the dialog stores for the dates s and e typed into it
SubmittedPause(s, e) == [startDate |-> DateOnlyString(s), endDate |-> DateOnlyString(e)]

\* C11: a daily item anchored before a pause typed in as s..e occurs on no
\* day d with s <= d <= e and on every other day exactly as it would without
\* the pause; storing the same pause twice changes nothing.
C11_PauseCorrectness ==
    \A i \in 1..Len(schedule) : \A s, e \in PauseDates :
        (/\ schedule[i].repeatFrequency = "DAILY"
         /\ schedule[i].pauses = <<SubmittedPause(s, e)>>
         /\ AnchorDate(schedule[i]) < s)
        => \A d \in ProbeDates :
              LET item == schedule[i]
                  twice == [item EXCEPT !.pauses = @ \o @]
                  without == [item EXCEPT !.pauses = << >>]
              IN  /\ (s <= d /\ d <= e) => ~occursOn(item, MidnightOf(d))
                  /\ ~(s <= d /\ d <= e) =>
                        (occursOn(item, MidnightOf(d)) <=> occursOn(without, MidnightOf(d)))
                  /\ occursOn(twice, MidnightOf(d)) <=> occursOn(item, MidnightOf(d))

\* C12: a recurring item stored with the end date typed into the form occurs
\* on no day after that date, and on the end date and before it occurs exactly
\* as it would without an end date.
C12_NoOccurrenceAfterEnd ==
    \A i \in 1..Len(schedule) : \A form \in Forms :
        (/\ form.repeatFrequency # "ONCE"
         /\ form.endDate # << >>
         /\ schedule[i] = newItem(SubSeq(schedule, 1, i - 1), form, now))
        => \A d \in ProbeDates :
              LET item == schedule[i]
                  without == [item EXCEPT !.endDate = << >>]
              IN  /\ d > form.endDate[1] => ~occursOn(item, MidnightOf(d))
                  /\ d <= form.endDate[1] =>
                        (occursOn(item, MidnightOf(d)) <=> occursOn(without, MidnightOf(d)))

\* the days of April 2024, a month of 30 days (2024-04-01 is day 91)
April == 91..120

\* the days of the probed range that are the 31st of their month
ThirtyFirsts == {30, 90}

\* C13: without end date, pause and cancellation a monthly item occurs on
\* exactly the days from its anchor date on that carry the anchor's day of the
\* month; one anchored on a 31st occurs on the 31sts only, on no day of April
\* and on no first of the month after a shorter one.
C13_MonthlySameDayOfMonth ==
    \A i \in 1..Len(schedule) :
        (schedule[i].repeatFrequency = "MONTHLY" /\ Plain(schedule[i])) =>
            /\ \A d \in CalendarProbeDates : \A t \in ProbeInstants(d) :
                  occursOn(schedule[i], t)
                      <=> (/\ d >= AnchorDate(schedule[i])
                           /\ DayOfMonth(d) = DayOfMonth(AnchorDate(schedule[i])))
            /\ AnchorDate(schedule[i]) = 30 =>
                  /\ \A d \in April : ~occursOn(schedule[i], MidnightOf(d))
                  /\ \A d \in CalendarProbeDates :
                        occursOn(schedule[i], MidnightOf(d)) <=> d \in ThirtyFirsts

\* C13 witness: a monthly item anchored on 2024-01-31 is stored; it occurs on
\* 2024-03-31 and neither on 2024-04-30 nor on 2024-05-01
C13_MonthlyOn31st ==
    \E i \in 1..Len(schedule) :
        /\ schedule[i].repeatFrequency = "MONTHLY"
        /\ Plain(schedule[i])
        /\ AnchorDate(schedule[i]) = 30
        /\ occursOn(schedule[i], MidnightOf(90))
        /\ ~occursOn(schedule[i], MidnightOf(120))
        /\ ~occursOn(schedule[i], MidnightOf(121))

\* hours*60 + minutes of the anchor of `item`
AnchorTimeOfDay(item) == TimeOfDay(FromISO(item.startDate))

\* C14: for every probed day getTasksForDate returns exactly the stored items
\* that occur on it, each once and as stored, in ascending order of the
\* anchor's time of day, items of equal time of day in the order they were
\* stored in; the schedule itself stays in the order of insertion.
C14_ListingSortedStable ==
    /\ \A i \in 1..Len(schedule) : schedule[i].id = i
    /\ \A d \in CalendarProbeDates : \A t \in ProbeInstants(d) :
          LET tasks == getTasksForDate(schedule, t)
          IN  /\ \A i \in 1..Len(schedule) :
                    occursOn(schedule[i], t) <=> \E k \in 1..Len(tasks) : tasks[k] = schedule[i]
              /\ \A k \in 1..Len(tasks) : \E i \in 1..Len(schedule) : tasks[k] = schedule[i]
              /\ \A k, l \in 1..Len(tasks) :
                    k < l =>
                        /\ tasks[k].id # tasks[l].id
                        /\ AnchorTimeOfDay(tasks[k]) <= AnchorTimeOfDay(tasks[l])
                        /\ AnchorTimeOfDay(tasks[k]) = AnchorTimeOfDay(tasks[l])
                               => tasks[k].id < tasks[l].id

\* C14 witness: on 2024-01-31 three stored items are listed, two of them with
\* the same time of day, and a later stored one ahead of an earlier stored one
C14_ListingReordered ==
    LET tasks == getTasksForDate(schedule, MidnightOf(30))
    IN  /\ Len(tasks) = 3
        /\ \E k, l \in 1..3 : k < l /\ tasks[k].id > tasks[l].id
        /\ \E k, l \in 1..3 :
              k < l /\ AnchorTimeOfDay(tasks[k]) = AnchorTimeOfDay(tasks[l])

\* C15: Delete applied to a one-time item sets isCancelled and nothing else,
\* applied again, at any later time, it changes nothing more, and the
\* cancelled item is listed for no day; applied to a recurring item it leaves
\* isCancelled alone.  No stored cancelled item occurs on any day.
C15_CancelOnceIdempotent ==
    \A i \in 1..Len(schedule) :
        LET once == deleteItem(schedule, schedule[i].id, now)
        IN  /\ schedule[i].repeatFrequency = "ONCE" =>
                  /\ once = [schedule EXCEPT ![i].isCancelled = TRUE]
                  /\ \A t \in ClockPoints : deleteItem(once, schedule[i].id, t) = once
                  /\ \A d \in ProbeDates :
                        LET tasks == getTasksForDate(once, MidnightOf(d))
                        IN  \A k \in 1..Len(tasks) : tasks[k].id # schedule[i].id
            /\ schedule[i].repeatFrequency # "ONCE" =>
                  once[i].isCancelled = schedule[i].isCancelled
            /\ schedule[i].isCancelled =>
                  /\ schedule[i].repeatFrequency = "ONCE"
                  /\ \A d \in ProbeDates : ~Listed(schedule[i], MidnightOf(d))

\* C15 witness: a one-time item has been deleted, another stored item is
\* still listed for the day the two were anchored on
C15_OnceCancelled ==
    \E i, j \in 1..Len(schedule) :
        /\ schedule[i].repeatFrequency = "ONCE"
        /\ schedule[i].isCancelled
        /\ ~Listed(schedule[i], FromISO(schedule[i].startDate))
        /\ Listed(schedule[j], FromISO(schedule[i].startDate))

\* the calendar date the stored end date of `item` falls on
EndDateOf(item) == DateOf(FromISO(item.endDate[1]))

Earlier(a, b) == IF a <= b THEN a ELSE b

\* C16: Delete applied today to a recurring item leaves it with the earlier of
\* its previous end date and today as end date (today when it had none): an
\* end date is never moved to a later day, be it the one typed into the form
\* or the one an earlier Delete has set.
C16_EndNeverExtended ==
    \A i \in 1..Len(schedule) :
        schedule[i].repeatFrequency # "ONCE" =>
            LET after == deleteItem(schedule, schedule[i].id, now)[i]
                asOf == DateOf(now)
            IN  /\ after.endDate # << >>
                /\ schedule[i].endDate = << >> => EndDateOf(after) = asOf
                /\ \A form \in Forms :
                      (/\ form.endDate # << >>
                       /\ schedule[i] = newItem(SubSeq(schedule, 1, i - 1), form, now))
                      => EndDateOf(after) = Earlier(form.endDate[1], asOf)
                /\ \A t \in ClockPoints :
                      schedule[i].endDate = <<ToISO(t)>>
                      => EndDateOf(after) = Earlier(DateOf(t), asOf)

\* C17: Delete applied today to a recurring item changes nothing but its end
\* date: the item occurs on every day up to today exactly as before and on no
\* later day, its completions, pauses, anchor and id are as before, and so is
\* every other item.
C17_EndPreservesHistory ==
    \A i \in 1..Len(schedule) :
        schedule[i].repeatFrequency # "ONCE" =>
            LET after == deleteItem(schedule, schedule[i].id, now)
                asOf == DateOf(now)
            IN  /\ after = [schedule EXCEPT ![i].endDate = after[i].endDate]
                /\ \A d \in ProbeDates :
                      /\ d <= asOf =>
                            (occursOn(after[i], MidnightOf(d))
                                <=> occursOn(schedule[i], MidnightOf(d)))
                      /\ d > asOf => ~occursOn(after[i], MidnightOf(d))

\* the dates that can be typed into the pause dialog
PauseDialogDates == PauseInputs \ {NoDate}

\* C18: the pause dialog turns down an interval whose end is before its start
\* with the invalid-range error and leaves the schedule as it is; any other
\* interval is appended as typed in, as the last pause of the item of the
\* dialog, and nothing else changes: the pauses stored before stay as they
\* are, whether or not the new one overlaps or repeats them.
C18_AddPauseValidated ==
    /\ [](taskToPause # << >> =>
            \A s, e \in PauseDialogDates :
                LET i == indexOf(schedule, taskToPause[1])
                    pause == SubmittedPause(s, e)
                IN  /\ pauseError(s, e) = (IF e < s THEN "INVALID_RANGE" ELSE "NONE")
                    /\ appendPause(schedule, taskToPause[1], pause)
                           = [schedule EXCEPT ![i].pauses = Append(@, pause)])
    /\ [][\A s, e \in PauseInputs :
            PauseTaskModalSubmit(s, e) =>
                IF s # NoDate /\ e # NoDate /\ s <= e
                THEN LET i == indexOf(schedule, taskToPause[1])
                     IN  /\ schedule' = [schedule EXCEPT
                                            ![i].pauses = Append(@, SubmittedPause(s, e))]
                         /\ taskToPause' = << >>
                ELSE schedule' = schedule /\ taskToPause' = taskToPause]_vars

\* C18 witness: the same interval has been stored twice for an item
C18_DuplicatePauseKept ==
    \E i \in 1..Len(schedule) : \E s, e \in PauseDialogDates :
        /\ s < e
        /\ schedule[i].pauses = <<SubmittedPause(s, e), SubmittedPause(s, e)>>

\* C19: Unpause applied now to an item changes at most the end of the pause
\* added last: that end becomes now when now is before it; when the last
\* pause is over, or the item has no pause, nothing changes.  The pauses added
\* earlier, running or not, the other fields of the item and the other items
\* stay as they are.
C19_UnpauseTouchesLastOnly ==
    \A i \in 1..Len(schedule) :
        LET last == Len(schedule[i].pauses)
            after == unpauseItem(schedule, schedule[i].id, now)
        IN  IF last > 0 /\ FromISO(schedule[i].pauses[last].endDate) > now
            THEN after = [schedule EXCEPT ![i].pauses[last].endDate = ToISO(now)]
            ELSE after = schedule

\* C19 witness: the pause added last has been ended by Unpause while a pause
\* added before it was running and is running on
C19_EarlierPauseRunsOn ==
    \E i \in 1..Len(schedule) : \E t \in ClockPoints :
        /\ Len(schedule[i].pauses) = 2
        /\ schedule[i].pauses[2].endDate = ToISO(t)
        /\ FromISO(schedule[i].pauses[1].startDate) <= t
        /\ FromISO(schedule[i].pauses[1].endDate) > t

\* the instants a view can display calendar day d with
DisplayInstants(d) == {d * MinutesPerDay, d * MinutesPerDay + 9 * 60, (d + 1) * MinutesPerDay - 1}

\* the item has a completion recorded for calendar day d
CompletedOn(item, d) == \E k \in 1..Len(item.completions) : item.completions[k].date = d

\* C20 as stated: an occurrence with a completion recorded for day d shows
\* Completed on d whatever the clock reads, and the day after, when nothing is
\* recorded for it, shows Pending, for every item
C20_CompletionRoundTrip ==
    \A i \in 1..Len(schedule) : \A k \in 1..Len(schedule[i].completions) :
        LET d == schedule[i].completions[k].date
        IN  /\ \A m \in DisplayInstants(d) : effectiveStatus(schedule[i], <<m>>) = "COMPLETED"
            /\ ~CompletedOn(schedule[i], d + 1) =>
                   effectiveStatus(schedule[i], <<(d + 1) * MinutesPerDay>>) = "PENDING"

\* C20 amended: recording a completion at instant t makes the occurrence of
\* that day Completed whatever the clock reads; the day after, when nothing is
\* recorded for it, is Pending for a recurring item and Completed for a
\* one-time item, whose own status the recording sets to Completed; the same
\* holds of every completion already recorded
C20_CompletionRoundTripRecurring ==
    /\ \A i \in 1..Len(schedule) : \A t \in ClockPoints \cup {now} : \A feedback \in Feedbacks :
           LET after == recordCompletion(schedule, schedule[i].id, t, feedback)[i]
               d == DateOf(t)
           IN  /\ \A m \in DisplayInstants(d) : effectiveStatus(after, <<m>>) = "COMPLETED"
               /\ ~CompletedOn(after, d + 1) =>
                      effectiveStatus(after, <<(d + 1) * MinutesPerDay>>) =
                          IF after.repeatFrequency = "ONCE" THEN "COMPLETED" ELSE "PENDING"
    /\ \A i \in 1..Len(schedule) : \A k \in 1..Len(schedule[i].completions) :
           LET d == schedule[i].completions[k].date
           IN  /\ \A m \in DisplayInstants(d) : effectiveStatus(schedule[i], <<m>>) = "COMPLETED"
               /\ ~CompletedOn(schedule[i], d + 1) =>
                      effectiveStatus(schedule[i], <<(d + 1) * MinutesPerDay>>) =
                          IF schedule[i].repeatFrequency = "ONCE" THEN "COMPLETED" ELSE "PENDING"

\* C20 witness: a recurring item and a one-time item have each had a session
\* completed and its feedback submitted, with nothing recorded for the day after
C20_SessionsCompleted ==
    /\ \E i \in 1..Len(schedule) :
           /\ schedule[i].repeatFrequency # "ONCE"
           /\ \E k \in 1..Len(schedule[i].completions) :
                  ~CompletedOn(schedule[i], schedule[i].completions[k].date + 1)
    /\ \E i \in 1..Len(schedule) :
           /\ schedule[i].repeatFrequency = "ONCE"
           /\ schedule[i].status = "COMPLETED"
           /\ \E k \in 1..Len(schedule[i].completions) :
                  ~CompletedOn(schedule[i], schedule[i].completions[k].date + 1)

\* the entries of the item's completions recorded for calendar day d
EntriesFor(item, d) == {k \in 1..Len(item.completions) : item.completions[k].date = d}

\* C21: recording a completion is an upsert keyed by calendar date: after a
\* completion is recorded for a day and then another one for the same day, the
\* item has one entry for that day and it carries the feedback recorded last.
C21_CompletionUpsert ==
    \A i \in 1..Len(schedule) : \A t \in ClockPoints : \A first, second \in Feedbacks :
        LET id == schedule[i].id
            once == recordCompletion(schedule, id, t, first)
            twice == recordCompletion(once, id, t, second)
            entries == EntriesFor(twice[i], DateOf(t))
        IN  /\ Cardinality(entries) = 1
            /\ \A k \in entries : twice[i].completions[k].feedback = second

\* the calendar days a row is displayed for
StatusDates == {0, 7, 14}

\* C22: the status of an item displayed for a calendar day is Paused exactly
\* when that day lies in any of its pauses (both ends inclusive, whatever the
\* clock reads and whether or not the day has a completion); otherwise it is
\* Completed exactly when the day has a completion or the item is a one-time
\* item with status Completed; otherwise it is Pending.
C22_StatusPrecedence ==
    \A i \in 1..Len(schedule) : \A d \in StatusDates :
        LET item == schedule[i]
            displayDate == <<MidnightOf(d) + TimeOfDay(now)>>
            pausedOnDate == isPaused(item, MidnightOf(d))
            completed == \/ CompletedOn(item, d)
                         \/ item.repeatFrequency = "ONCE" /\ item.status = "COMPLETED"
        IN  /\ isCurrentlyPaused(item) <=> pausedOnDate
            /\ ~pausedOnDate =>
                   effectiveStatus(item, displayDate) =
                       IF completed THEN "COMPLETED" ELSE "PENDING"

\* every request of the scheduler form that is explored
AllForms == Forms \cup SlotForms \cup CalendarForms \cup CompletionForms

\* C23: a request that is turned down (past date, end date before the start,
\* conflict) leaves the stored schedule as it was, a conflicting request is
\* never stored at the suggested slot, and an item is appended only by a
\* request that passes every check, with the start the form carried.
C23_NoPartialMutation ==
    /\ [](\A form \in AllForms :
            LET after == addItem(schedule, form, now)
            IN  IF submitError(schedule, form, now) = "NONE"
                THEN /\ Len(after) = Len(schedule) + 1
                     /\ SubSeq(after, 1, Len(schedule)) = schedule
                     /\ FromISO(after[Len(after)].startDate) = FormStart(form)
                ELSE after = schedule)
    /\ [][Added =>
            /\ error' = "NONE"
            /\ SubSeq(schedule', 1, Len(schedule)) = schedule
            /\ \E form \in AllForms :
                   /\ submitError(schedule, form, now) = "NONE"
                   /\ FromISO(schedule'[Len(schedule')].startDate) = FormStart(form)]_vars

\* C23 witness: a request has been turned down for a conflict, the slot it was
\* pointed to is free, and no stored session starts at that slot
C23_ConflictNotStored ==
    /\ error = "CONFLICT"
    /\ suggestion # << >>
    /\ \A i \in 1..Len(schedule) : TimeOfDay(FromISO(schedule[i].startDate)) # suggestion[1]

\* `after` holds the items of `before` in the same places, and none but the
\* item `itemId` differs
OnlyChanges(before, after, itemId) ==
    /\ Len(after) = Len(before)
    /\ \A i \in 1..Len(before) :
           /\ after[i].id = before[i].id
           /\ before[i].id # itemId => after[i] = before[i]

\* C24: stored items are never taken out of the schedule and the lifecycle
\* operations are local: no step shortens the schedule or changes the ids
\* stored or their order, a step changes at most one stored item, and Delete,
\* Pause, Unpause and the recording of a completion change no item but the one
\* they are aimed at.
C24_SoftDeleteAndLocality ==
    /\ [](\A i \in 1..Len(schedule) : \A t \in ClockPoints :
            LET id == schedule[i].id
            IN  /\ OnlyChanges(schedule, deleteItem(schedule, id, t), id)
                /\ OnlyChanges(schedule, unpauseItem(schedule, id, t), id)
                /\ \A feedback \in Feedbacks :
                       OnlyChanges(schedule, recordCompletion(schedule, id, t, feedback), id)
                /\ \A s \in PauseDates, e \in PauseDates :
                       OnlyChanges(schedule, appendPause(schedule, id, SubmittedPause(s, e)), id))
    /\ [][/\ Len(schedule') >= Len(schedule)
          /\ \A i \in 1..Len(schedule) : schedule'[i].id = schedule[i].id
          /\ Cardinality({i \in 1..Len(schedule) : schedule'[i] # schedule[i]}) <= 1]_vars

\* C24 witness: a one-time item has been deleted and a weekly item has been
\* completed, paused and deleted, and both are still stored in the order they
\* were added in
C24_EverythingStillStored ==
    /\ \A i \in 1..Len(schedule) : schedule[i].id = i
    /\ \E i \in 1..Len(schedule) :
           schedule[i].repeatFrequency = "ONCE" /\ schedule[i].isCancelled
    /\ \E i \in 1..Len(schedule) :
           /\ schedule[i].repeatFrequency # "ONCE"
           /\ schedule[i].completions # << >>
           /\ schedule[i].pauses # << >>
           /\ schedule[i].endDate # << >>

\* C25: the AI assistance never gates scheduling: whatever has become of the
\* AI call (never sent, in flight, answered, failed, out of quota), a form is
\* decided by the form, the schedule and the clock alone (turned down as past
\* when it starts before the clock, else turned down for a conflict when a
\* stored session of its day shares a minute with it, else accepted), and a
\* request accepted while no ritual has arrived stores the item with no
\* checklist.
C25_AINeverGates ==
    \A form \in AssistForms :
        LET after == addItem(schedule, form, now)
        IN  /\ PassesSettings(form) =>
                   submitError(schedule, form, now) =
                       IF FormStart(form) < now THEN "PAST"
                       ELSE IF Blocking(FormStart(form), form.duration) # {} THEN "CONFLICT"
                       ELSE "NONE"
            /\ (submitError(schedule, form, now) = "NONE" /\ ritual = << >>)
                   => /\ after[Len(after)].ritualChecklist = << >>
                      /\ ~after[Len(after)].wasCreatedWithAI

\* C25 witness: the AI call has failed and, after that, a request has been
\* turned down for a conflict, next to an item stored without any AI result
C25_DecidedAfterAIFailure ==
    /\ aiCall \in AIFailures
    /\ error = "CONFLICT"
    /\ \E i \in 1..Len(schedule) :
           schedule[i].ritualChecklist = << >> /\ ~schedule[i].wasCreatedWithAI

\* every pause of the item starts no later than it ends
WellFormedPauses(item) ==
    \A k \in 1..Len(item.pauses) :
        FromISO(item.pauses[k].startDate) <= FromISO(item.pauses[k].endDate)

\* C26 as stated: every stored pause starts no later than it ends, and
\* unpausing keeps it so whenever it is applied, the last pause not having
\* started yet included.
C26_PausesWellFormed ==
    \A i \in 1..Len(schedule) :
        /\ WellFormedPauses(schedule[i])
        /\ WellFormedPauses(unpauseItem(schedule, schedule[i].id, now)[i])

\* C26 amended: every stored pause starts no later than it ends in every
\* reachable state, because Unpause is offered only while the last pause is
\* running: unpausing an item it is offered for keeps the pauses well formed,
\* and it is not offered for an item whose last pause has not started yet.
C26_PausesWellFormedBehindGate ==
    \A i \in 1..Len(schedule) :
        LET item == schedule[i]
            last == Len(item.pauses)
        IN  /\ WellFormedPauses(item)
            /\ item.id \in unpausable(schedule) =>
                   WellFormedPauses(unpauseItem(schedule, item.id, now)[i])
            /\ (last > 0 /\ FromISO(item.pauses[last].startDate) > now) =>
                   item.id \notin unpausable(schedule)

\* C26 witness: a pause has been cut short by Unpause and a pause added after
\* it has not started yet, so that Unpause is not offered
C26_UnstartedPauseNotUnpausable ==
    \E i \in 1..Len(schedule) : \E t \in ClockPoints :
        /\ Len(schedule[i].pauses) = 2
        /\ schedule[i].pauses[1].endDate = ToISO(t)
        /\ FromISO(schedule[i].pauses[2].startDate) > now
        /\ schedule[i].id \notin unpausable(schedule)

\* C27: in every reachable state an item that has an end date has it on or
\* after the calendar date of its anchor, whether the end date was typed into
\* the form or set by Delete, at whatever time.
C27_EndNotBeforeAnchor ==
    \A i \in 1..Len(schedule) :
        schedule[i].endDate # << >> => EndDateOf(schedule[i]) >= AnchorDate(schedule[i])

\* C28: every completion entry is keyed by a calendar date on which its item
\* occurs, not by the date on which the session happened to be finished; a
\* one-time item has at most one entry, keyed by its anchor date.
C28_CompletionOnOccurrenceDate ==
    \A i \in 1..Len(schedule) :
        LET item == schedule[i]
        IN  /\ \A k \in 1..Len(item.completions) :
                   occursOn(item, MidnightOf(item.completions[k].date))
            /\ item.repeatFrequency = "ONCE" =>
                   /\ Len(item.completions) <= 1
                   /\ \A k \in 1..Len(item.completions) :
                          item.completions[k].date = AnchorDate(item)

\* C29: the anchor is the first occurrence: every stored item that is not
\* cancelled, paused or ended occurs on the calendar date of its anchor and on
\* no earlier date, and a stored weekly item has days of the week and the
\* weekday of its anchor among them.
C29_AnchorIsFirstOccurrence ==
    \A i \in 1..Len(schedule) :
        LET item == schedule[i]
        IN  /\ Plain(item) =>
                   /\ occursOn(item, MidnightOf(AnchorDate(item)))
                   /\ \A d \in ProbeDates :
                          d < AnchorDate(item) => ~occursOn(item, MidnightOf(d))
            /\ item.repeatFrequency = "WEEKLY" =>
                   /\ Len(item.repeatOn) > 0
                   /\ Includes(item.repeatOn, Weekday(AnchorDate(item)))

\* C30: unpausing ends the pause at once: when Unpause is pressed for an item
\* whose only pause is running and has its end still ahead, the item is listed
\* again for the calendar date of the clock and for every later date, wherever
\* it would be listed without the pause.
C30_UnpauseEffectiveImmediately ==
    \A i \in 1..Len(schedule) :
        LET item == schedule[i]
            after == unpauseItem(schedule, item.id, now)[i]
            unpaused == [item EXCEPT !.pauses = << >>]
        IN  (/\ item.id \in unpausable(schedule)
             /\ Len(item.pauses) = 1
             /\ FromISO(item.pauses[1].endDate) > now)
            => \A d \in ProbeDates :
                   (d >= DateOf(now) /\ occursOn(unpaused, MidnightOf(d)))
                   => occursOn(after, MidnightOf(d))

====
